---- MODULE Spec2Model ----
(***************************************************************************)
(* A model of keybase/keybase.py: the directory client (Keybase), its      *)
(* administrative subclass (KeybaseAdmin) and the key record               *)
(* (KeybasePublicKey) with its isolated keyring.                           *)
(*                                                                         *)
(* Python values are modelled as follows.                                  *)
(*   dict            a function whose DOMAIN is the set of keys present    *)
(*   None / a value  an optional: <<>> is None, <<v>> is the value v       *)
(*   str             a TLA+ string; a fingerprint is a sequence of         *)
(*                   characters so that str.lower() can be computed        *)
(*   raise E(msg)    the record [cls |-> "E", msg |-> the message, a tuple  *)
(*                   of strings]; Returned when the call returned normally *)
(* The directory service and the OpenPGP engine are the environment: what  *)
(* they answer is chosen from small sets by the actions.                   *)
(***************************************************************************)
EXTENDS Naturals, Sequences, FiniteSets, TLC

VARIABLES
    _username,            \* Keybase._username
    _user_object,         \* Keybase._user_object
    __lookup_performed,   \* Keybase.__lookup_performed
    __salt,               \* KeybaseAdmin.__salt
    __session_cookie,     \* KeybaseAdmin.__session_cookie
    __user_object,        \* KeybaseAdmin.__user_object (not Keybase._user_object)
    records,              \* the KeybasePublicKey objects that exist, by object id
    keyrings,             \* the keyring directories on disk and the keys in each
    last                  \* what the last call did: its result and its calls out

vars == << _username, _user_object, __lookup_performed,
           __salt, __session_cookie, __user_object,
           records, keyrings, last >>

client == << _username, _user_object, __lookup_performed >>
admin  == << __salt, __session_cookie, __user_object >>

-----------------------------------------------------------------------------
(* Python values *)

None == << >>
Some(v) == << v >>
EmptyDict == << >>

\* bool(x) for an optional str and for an optional dict
TruthyStr(o) == o # None /\ o[1] # ""
TruthyDict(o) == o # None /\ DOMAIN o[1] # {}

\* d.get(k) as an optional
Get(d, k) == IF k \in DOMAIN d THEN Some(d[k]) ELSE None

\* {k: v} when o is the value v, {} when o is None
Entry(k, o) == IF o = None THEN EmptyDict ELSE (k :> o[1])

\* raise cls(msg), and a normal return
Raise(cls, msg) == [cls |-> cls, msg |-> msg]
Returned == Raise("", << >>)

-----------------------------------------------------------------------------
(* Bounds of the model *)

\* key record objects alive at a time: in the client specification and in the
\* keyring specification
MaxClientKeys == 1
MaxRecords == 2
\* names mkdtemp can hand out
MaxDirs == 2
\* fingerprints one import result lists
MaxFprints == 2
\* entries in the matches of a discover response
MaxMatches == 2
\* directories on the search path
MaxPath == 2

-----------------------------------------------------------------------------
(* Fingerprints and str.lower() *)

LowerChar(c) ==
    CASE c = "A" -> "a"
      [] c = "B" -> "b"
      [] c = "C" -> "c"
      [] OTHER -> c

Lower(s) == [i \in DOMAIN s |-> LowerChar(s[i])]

\* two keys; the engine reports fingerprints in upper case
FprintIrc == << "7", "C", "B" >>
FprintEve == << "A", "0", "9" >>
EngineFprints == { FprintIrc, FprintEve }
\* what a directory record or a caller may declare
DeclaredFprints == { FprintIrc, Lower(FprintIrc), << "7", "c", "B" >> }

-----------------------------------------------------------------------------
(* What the directory service can send *)

SeqsUpTo(S, n) == UNION { [1..k -> S] : k \in 0..n }

\* A bundle is a str. What matters of it: whether it is the empty string, and
\* the fingerprints the engine reports when it imports it (none for a text
\* that holds no key).
Bundle(keys) == [nonempty |-> TRUE, keys |-> keys]
EmptyBundle == [nonempty |-> FALSE, keys |-> << >>]
Bundles == { EmptyBundle } \cup { Bundle(ks) : ks \in SeqsUpTo(EngineFprints, MaxFprints) }

\* the key attribute maps of the directory records
KeyIrc ==
    ("kid" :> "0101f5") @@ ("bundle" :> Bundle(<< FprintIrc, FprintIrc >>))
    @@ ("key_fingerprint" :> Lower(FprintIrc)) @@ ("mtime" :> 7)
KeyNoBundle == ("kid" :> "0101aa") @@ ("key_fingerprint" :> Lower(FprintIrc))
KeyForged ==
    ("kid" :> "0101f5") @@ ("bundle" :> Bundle(<< FprintIrc, FprintEve >>))
    @@ ("key_fingerprint" :> Lower(FprintIrc))

\* the 'them' sections
ThemIrc ==
    ("profile" :> (("full_name" :> "Ian Chesal") @@ ("location" :> "Boston")))
    @@ ("public_keys" :> (("primary" :> KeyIrc) @@ ("sub" :> KeyNoBundle)))
ThemForged ==
    ("profile" :> ("full_name" :> "Eve"))
    @@ ("public_keys" :> ("primary" :> KeyForged))
ThemNoPrimary == ("public_keys" :> ("sub" :> KeyIrc))
ThemProfile == ("profile" :> ("location" :> "Boston"))
Thems == { EmptyDict, ThemIrc, ThemForged, ThemNoPrimary, ThemProfile }

Handles == { "irc", "eve" }
KeyNames == { "primary", "sub", "nokey" }
\* the key names in the order sorted() puts them
KeyNameOrder == << "nokey", "primary", "sub" >>

StatusOk == ("code" :> 0) @@ ("name" :> "OK")
Statuses == { ("code" :> 100), ("name" :> "NOT_FOUND"), ("name" :> "INPUT_ERROR") }

\* the answers to user/lookup.json: an OK status with each 'them' or none, and
\* each other status (or none) with and without a 'them'
LookupResponses ==
    { ("status" :> StatusOk) @@ Entry("them", th) :
        th \in { None } \cup { Some(x) : x \in Thems } }
    \cup { Entry("status", st) @@ Entry("them", th) :
             st \in { None } \cup { Some(x) : x \in Statuses },
             th \in { None, Some(ThemIrc) } }

\* get_json_from_url: the parsed body, or the error requests raises
HttpOk(json) == [raised |-> Returned, json |-> json]
HttpFailed == [raised |-> Raise("HTTPError", << >>), json |-> EmptyDict]
Http(R) == { HttpOk(r) : r \in R } \cup { HttpFailed }

\* one round trip of get_json_from_url: the request and what came back.
\* method(url, params=params) passes no timeout, and without one the
\* requests library waits for the answer with no limit: timeout is None
Request(endpoint, method, payload, http) ==
    [endpoint |-> endpoint, method |-> method, payload |-> payload,
     timeout |-> None, answer |-> http]

-----------------------------------------------------------------------------
(* class Keybase *)

\* Keybase.username
username == _username

\* Keybase.is_bound
is_bound == TruthyStr(_username) /\ TruthyDict(_user_object) /\ __lookup_performed

\* Keybase._section_getter
_section_getter(section, key) ==
    IF TruthyDict(_user_object)
       /\ section \in DOMAIN _user_object[1]
       /\ key \in DOMAIN _user_object[1][section]
    THEN Some(_user_object[1][section][key])
    ELSE None

\* Keybase.name, Keybase.location
name == _section_getter("profile", "full_name")
location == _section_getter("profile", "location")

\* Keybase.public_keys: tuple(sorted(pkeys))
public_keys ==
    LET pkeys == IF TruthyDict(_user_object) /\ "public_keys" \in DOMAIN _user_object[1]
                 THEN DOMAIN _user_object[1]["public_keys"]
                 ELSE {}
    IN  SelectSeq(KeyNameOrder, LAMBDA k : k \in pkeys)

Range(s) == { s[i] : i \in DOMAIN s }

\* Keybase._raise_unbound_error
_raise_unbound_error(message) ==
    IF ~is_bound THEN Raise("KeybaseUnboundInstanceError", << message >>) ELSE Returned

\* the checks of the response with the 'them' check moved before the status
\* name check
LookupCheckThemFirst(jresponse, uname) ==
    IF ~("status" \in DOMAIN jresponse) \/ ~("name" \in DOMAIN jresponse["status"])
    THEN Raise("KeybaseError", << "Malformed API response to user/lookup.json request" >>)
    ELSE IF ~("them" \in DOMAIN jresponse)
    THEN Raise("KeybaseError", << "Malformed API response to user/lookup.json request" >>)
    ELSE IF jresponse["status"]["name"] \in { "NOT_FOUND", "INPUT_ERROR" }
    THEN Raise("KeybaseUserNotFound", << "User ", uname, " not found" >>)
    ELSE Returned

\* Keybase.__lookup, lines 450-455: the checks of the response
LookupCheck(jresponse, uname) ==
    IF ~("status" \in DOMAIN jresponse) \/ ~("name" \in DOMAIN jresponse["status"])
    THEN Raise("KeybaseError", << "Malformed API response to user/lookup.json request" >>)
    ELSE IF jresponse["status"]["name"] \in { "NOT_FOUND", "INPUT_ERROR" }
    THEN Raise("KeybaseUserNotFound", << "User ", uname, " not found" >>)
    ELSE IF ~("them" \in DOMAIN jresponse)
    THEN Raise("KeybaseError", << "Malformed API response to user/lookup.json request" >>)
    ELSE Returned

\* the fields of the Keybase part of an instance
Self ==
    [_username |-> _username, _user_object |-> _user_object,
     __lookup_performed |-> __lookup_performed]

\* Keybase.__init__, lines 238-240
Fresh == [_username |-> None, _user_object |-> None, __lookup_performed |-> FALSE]

\* __lookup refusing only an instance that reads as bound
LookupIfNotBound(self, uname, http) ==
    LET request == Request("user/lookup.json", "get", ("username" :> uname), http)
    IN  IF self.__lookup_performed /\ TruthyDict(self._user_object)
        THEN self @@ [raised |-> Raise("KeybaseLookupInvalidError",
                                       << "Keybase object already bound to username" >>),
                      requests |-> << >>]
        ELSE IF http.raised # Returned
        THEN self @@ [raised |-> http.raised, requests |-> << request >>]
        ELSE IF LookupCheck(http.json, uname) # Returned
        THEN self @@ [raised |-> LookupCheck(http.json, uname), requests |-> << request >>]
        ELSE [_username |-> Some(uname), _user_object |-> Some(http.json["them"]),
              __lookup_performed |-> TRUE, raised |-> Returned, requests |-> << request >>]

\* __lookup without the check that refuses a second lookup
LookupAgain(self, uname, http) ==
    LET request == Request("user/lookup.json", "get", ("username" :> uname), http)
    IN  IF http.raised # Returned
        THEN self @@ [raised |-> http.raised, requests |-> << request >>]
        ELSE IF LookupCheck(http.json, uname) # Returned
        THEN self @@ [raised |-> LookupCheck(http.json, uname), requests |-> << request >>]
        ELSE [_username |-> Some(uname), _user_object |-> Some(http.json["them"]),
              __lookup_performed |-> TRUE, raised |-> Returned, requests |-> << request >>]

\* Keybase.__lookup on the instance with the fields self: the fields after the
\* call, what it raised and the requests it issued. http is what
\* get_json_from_url gives if it is called.
__lookup(self, uname, http) ==
    LET request == Request("user/lookup.json", "get", ("username" :> uname), http)
    IN  IF self.__lookup_performed
        THEN self @@ [raised |-> Raise("KeybaseLookupInvalidError",
                                       << "Keybase object already bound to username" >>),
                      requests |-> << >>]
        ELSE IF http.raised # Returned
        THEN self @@ [raised |-> http.raised, requests |-> << request >>]
        ELSE IF LookupCheck(http.json, uname) # Returned
        THEN self @@ [raised |-> LookupCheck(http.json, uname), requests |-> << request >>]
        ELSE [_username |-> Some(uname), _user_object |-> Some(http.json["them"]),
              __lookup_performed |-> TRUE, raised |-> Returned, requests |-> << request >>]

Call(op, args, raised, ret, requests, engine) ==
    [op |-> op, args |-> args, raised |-> raised, ret |-> ret,
     requests |-> requests, engine |-> engine]

\* Keybase.__init__ followed by KeybaseAdmin.__init__: the instance after
\* construction (when the lookup raises, the Admin fields are never assigned;
\* they read as None here)
Construct(uname, http) ==
    LET r == __lookup(Fresh, uname, http)
    IN  /\ _username = r._username
        /\ _user_object = r._user_object
        /\ __lookup_performed = r.__lookup_performed
        /\ __salt = None
        /\ __session_cookie = None
        /\ __user_object = None
        /\ last = Call("__init__", << uname >>, r.raised, None, r.requests, << >>)

\* a later call of __lookup on the instance
Lookup(uname, http) ==
    LET r == __lookup(Self, uname, http)
    IN  /\ _username' = r._username
        /\ _user_object' = r._user_object
        /\ __lookup_performed' = r.__lookup_performed
        /\ last' = Call("lookup", << uname >>, r.raised, None, r.requests, << >>)
        /\ UNCHANGED << admin, records, keyrings >>

\* reading a property: name, location, username, is_bound, public_keys
ReadName ==
    /\ last' = Call("name", << >>, Returned, name, << >>, << >>)
    /\ UNCHANGED << client, admin, records, keyrings >>

ReadLocation ==
    /\ last' = Call("location", << >>, Returned, location, << >>, << >>)
    /\ UNCHANGED << client, admin, records, keyrings >>

ReadUsername ==
    /\ last' = Call("username", << >>, Returned, username, << >>, << >>)
    /\ UNCHANGED << client, admin, records, keyrings >>

ReadIsBound ==
    /\ last' = Call("is_bound", << >>, Returned, Some(is_bound), << >>, << >>)
    /\ UNCHANGED << client, admin, records, keyrings >>

ReadPublicKeys ==
    /\ last' = Call("public_keys", << >>, Returned, Some(public_keys), << >>, << >>)
    /\ UNCHANGED << client, admin, records, keyrings >>

-----------------------------------------------------------------------------
(* The OpenPGP engine and the file system *)

DirNames == 1..MaxDirs

\* one call out to the engine; homedir 0 when the call uses no keyring
EngineCall(call, homedir, args) == [call |-> call, homedir |-> homedir, args |-> args]

\* what the local installation lists with --list-config
InstalledCiphers == << "3DES", "AES256" >>
InstalledDigests == << "SHA1", "SHA512" >>
\* an engine built without bzip2 support
InstalledCompress == << "Uncompressed", "ZIP", "ZLIB" >>

\* s without the elements it repeats: the keys of a keyring after the imports s
RECURSIVE Uniq(_)
Uniq(s) ==
    IF s = << >> THEN << >>
    ELSE LET front == Uniq(SubSeq(s, 1, Len(s) - 1))
         IN  IF s[Len(s)] \in Range(front) THEN front ELSE Append(front, s[Len(s)])

\* the attribute maps a caller may construct a key record from
KeyData ==
    { Entry("bundle", b) @@ Entry("key_fingerprint", f) :
        b \in { None } \cup { Some(x) : x \in Bundles },
        f \in { None } \cup { Some(x) : x \in DeclaredFprints } }

-----------------------------------------------------------------------------
(* class KeybasePublicKey *)

ErrMismatch ==
    Raise("KeybasePublicKeyError",
          << "A serious security error has occured: fingerprint mismatch on key import" >>)
ErrMissing == Raise("KeybasePublicKeyError", << "Missing PGP key bundle in init data" >>)

\* KeybasePublicKey.__property_getter
__property_getter(data, prop) == IF prop \in DOMAIN data THEN Some(data[prop]) ELSE None

\* KeybasePublicKey.bundle
bundle(data) == __property_getter(data, "bundle")

\* the declared fingerprint as it was given, not lower-cased
KeyFingerprintAsGiven(data) == __property_getter(data, "key_fingerprint")

\* KeybasePublicKey.key_fingerprint: None here stands for the AttributeError
\* of None.lower() when the map declares no fingerprint
key_fingerprint(data) ==
    LET value == __property_getter(data, "key_fingerprint")
    IN  IF value = None THEN None ELSE Some(Lower(value[1]))

\* a test for the bundle field being there, whatever its value
HasBundleField(data) == bundle(data) # None

\* KeybasePublicKey.__init__, line 589: if self.bundle
has_bundle(data) == bundle(data) # None /\ bundle(data)[1].nonempty

\* KeybasePublicKey.__get_gpg_config
__get_gpg_config(config) ==
    CASE config = "ciphername" -> InstalledCiphers
      [] config = "digestname" -> InstalledDigests
      [] config = "compressname" -> InstalledCompress
      [] OTHER -> << >>

\* the check of the first fingerprint of the import result only
ImportCheckFirst(data, fingerprints) ==
    IF fingerprints = << >> THEN Returned
    ELSE IF key_fingerprint(data) = None
    THEN Raise("AttributeError", << "'NoneType' object has no attribute 'lower'" >>)
    ELSE IF Lower(fingerprints[1]) # key_fingerprint(data)[1]
    THEN ErrMismatch
    ELSE Returned

\* KeybasePublicKey.__init__, lines 603-605: the loop over the fingerprints of
\* the import result
ImportCheck(data, fingerprints) ==
    IF fingerprints = << >> THEN Returned
    ELSE IF key_fingerprint(data) = None
    THEN Raise("AttributeError", << "'NoneType' object has no attribute 'lower'" >>)
    ELSE IF \E i \in DOMAIN fingerprints :
                Lower(fingerprints[i]) # key_fingerprint(data)[1]
    THEN ErrMismatch
    ELSE Returned

\* KeybasePublicKey.__init__ with tempdir the directory mkdtemp made: the
\* object's fields, what the constructor raised, the engine calls it made and
\* the keys in the keyring directory afterwards
KeyInit(kwargs, tempdir) ==
    LET data == [k \in DOMAIN kwargs |->
                    IF k \in { "mtime", "ctime" } THEN << "datetime", kwargs[k] >>
                    ELSE kwargs[k]]
        imported == IF has_bundle(data) THEN bundle(data)[1].keys ELSE << >>
        obj == [__data |-> data,
                __cipher_algos |-> __get_gpg_config("ciphername"),
                __digest_algos |-> __get_gpg_config("digestname"),
                __compress_algos |-> << "ZLIB", "BZIP2", "ZIP", "Uncompressed" >>,
                __gpg |-> IF has_bundle(data) THEN Some([homedir |-> tempdir]) ELSE None,
                __tempdir |-> tempdir]
        config == << EngineCall("list-config", 0, << "ciphername" >>),
                     EngineCall("list-config", 0, << "digestname" >>) >>
    IN  [obj |-> obj,
         raised |-> IF has_bundle(data) THEN ImportCheck(data, imported) ELSE ErrMissing,
         engine |-> IF has_bundle(data)
                    THEN config \o << EngineCall("GPG", tempdir, << >>),
                                      EngineCall("import_keys", tempdir, << >>) >>
                    ELSE config,
         keyring |-> Uniq(imported)]

\* how many key records may be alive together, and how many names mkdtemp
\* has to choose from
Limit(ids, dirs) == [ids |-> ids, dirs |-> dirs]

\* the smallest unused object id below the limit; 0 when there is none
FreeId(limit) ==
    IF \E i \in 1..limit.ids : i \notin DOMAIN records
    THEN CHOOSE i \in 1..limit.ids :
            i \notin DOMAIN records /\ \A j \in 1..(i - 1) : j \in DOMAIN records
    ELSE 0

\* a mkdtemp that may hand out the name of a directory that exists
MkdtempAny(limit) == 1..limit.dirs

\* tempfile.mkdtemp: any name that is no directory yet
mkdtemp(limit) == (1..limit.dirs) \ DOMAIN keyrings

\* a key record object comes to exist: constructed in directory d under id
Created(id, d, init) ==
    /\ records' = (id :> (init.obj @@ [raised |-> init.raised])) @@ records
    /\ keyrings' = (d :> init.keyring) @@ keyrings

\* KeybasePublicKey(**kwargs)
NewKey(limit, kwargs) ==
    /\ FreeId(limit) # 0
    /\ \E d \in mkdtemp(limit) :
        LET init == KeyInit(kwargs, d)
            id == FreeId(limit)
        IN  /\ Created(id, d, init)
            /\ last' = Call("KeybasePublicKey", << kwargs >>, init.raised,
                            IF init.raised = Returned THEN Some(id) ELSE None,
                            << >>, init.engine)
    /\ UNCHANGED << client, admin >>

\* a teardown that removes the keyring of a constructed record only
DelConstructed(id) ==
    /\ id \in DOMAIN records
    /\ records' = [i \in DOMAIN records \ { id } |-> records[i]]
    /\ keyrings' = IF records[id].raised = Returned
                   THEN [d \in DOMAIN keyrings \ { records[id].__tempdir } |-> keyrings[d]]
                   ELSE keyrings
    /\ last' = Call("__del__", << id, records[id] >>, Returned, None, << >>, << >>)
    /\ UNCHANGED << client, admin >>

\* KeybasePublicKey.__del__, when the object is collected
Del(id) ==
    /\ id \in DOMAIN records
    /\ records' = [i \in DOMAIN records \ { id } |-> records[i]]
    /\ keyrings' = [d \in DOMAIN keyrings \ { records[id].__tempdir } |-> keyrings[d]]
    /\ last' = Call("__del__", << id, records[id] >>, Returned, None, << >>, << >>)
    /\ UNCHANGED << client, admin >>

-----------------------------------------------------------------------------
(* KeybasePublicKey: verify, verify_file, encrypt *)

\* what the engine may answer to a verification
Verdicts ==
    { [valid |-> TRUE, status |-> "signature valid"],
      [valid |-> FALSE, status |-> "signature bad"] }

\* what the engine may answer to an encryption: ok is bool(encrypted)
Ciphertexts == { [ok |-> TRUE, data |-> "-----BEGIN PGP MESSAGE-----"],
                 [ok |-> FALSE, data |-> ""] }

\* a result of a method: what it raised, what it returned, its engine calls
Result(raised, ret, engine) == [raised |-> raised, ret |-> ret, engine |-> engine]

\* an engine call together with what the engine answered
Answered(call, answer) == call @@ [answer |-> answer]

\* the result from the engine's verdict when throw_error is not looked at
VerifyResultQuiet(vobj, throw_error, engine) ==
    IF vobj.valid THEN Result(Returned, Some(TRUE), engine)
    ELSE Result(Returned, Some(FALSE), engine)

\* lines 818-822 and 878-882: the result from the engine's verdict
VerifyResult(vobj, throw_error, engine) ==
    IF vobj.valid THEN Result(Returned, Some(TRUE), engine)
    ELSE IF throw_error
    THEN Result(Raise("KeybasePublicKeyVerifyError", << vobj.status >>), None, engine)
    ELSE Result(Returned, Some(FALSE), engine)

\* KeybasePublicKey.verify; vobj is the engine's verdict
KeyVerify(obj, throw_error, vobj) ==
    VerifyResult(vobj, throw_error,
                 << Answered(EngineCall("verify", obj.__gpg[1].homedir, << "data" >>),
                             vobj) >>)

\* KeybasePublicKey.verify_file; sigfname is None or the path of a detached
\* signature, opened tells whether open(fname) succeeded
KeyVerifyFile(obj, sigfname, throw_error, opened, vobj) ==
    IF ~opened THEN Result(Raise("IOError", << >>), None, << >>)
    ELSE VerifyResult(vobj, throw_error,
                      << Answered(EngineCall("verify_file", obj.__gpg[1].homedir,
                                             << "fname" >> \o sigfname),
                                  vobj) >>)

\* the optional arguments of encrypt, as a record
EncryptArgs(armor, cipher_algo, digest_algo, compress_algo) ==
    [armor |-> armor, cipher_algo |-> cipher_algo, digest_algo |-> digest_algo,
     compress_algo |-> compress_algo]

\* KeybasePublicKey.encrypt, lines 942-956: the first algorithm check that fails
EncryptCheck(obj, a) ==
    IF TruthyStr(a.cipher_algo) /\ a.cipher_algo[1] \notin Range(obj.__cipher_algos)
    THEN Raise("KeybasePublicKeyEncryptError",
               << "cipher algorithm ", a.cipher_algo[1], " unrecognized" >>)
    ELSE IF TruthyStr(a.digest_algo) /\ a.digest_algo[1] \notin Range(obj.__digest_algos)
    THEN Raise("KeybasePublicKeyEncryptError",
               << "digest algorithm ", a.digest_algo[1], " unrecognized" >>)
    ELSE IF TruthyStr(a.compress_algo) /\ a.compress_algo[1] \notin Range(obj.__compress_algos)
    THEN Raise("KeybasePublicKeyEncryptError",
               << "compression algorithm ", a.compress_algo[1], " unrecognized" >>)
    ELSE Returned

\* KeybasePublicKey.encrypt, lines 941-962: the keyword arguments for the engine
EncryptKwargs(a) ==
    (IF TruthyStr(a.cipher_algo) THEN ("cipher_algo" :> a.cipher_algo[1]) ELSE EmptyDict)
    @@ (IF TruthyStr(a.digest_algo) THEN ("digest_algo" :> a.digest_algo[1]) ELSE EmptyDict)
    @@ ("compress_algo" :> IF TruthyStr(a.compress_algo) THEN a.compress_algo[1] ELSE "ZIP")
    @@ ("armor" :> a.armor) @@ ("encrypt" :> TRUE) @@ ("symmetric" :> FALSE)
    @@ ("always_trust" :> TRUE)

\* encrypt asking the engine for the recipient before it looks at the names
KeyEncryptListFirst(obj, a, listed, encrypted) ==
    LET homedir == obj.__gpg[1].homedir
        list_keys == Answered(EngineCall("list_keys", homedir, << >>), listed)
    IN  IF listed = << >>
        THEN Result(Raise("IndexError", << "list index out of range" >>), None,
                    << list_keys >>)
        ELSE IF EncryptCheck(obj, a) # Returned
        THEN Result(EncryptCheck(obj, a), None, << list_keys >>)
        ELSE LET engine == << list_keys,
                              Answered(EngineCall("encrypt", homedir,
                                                  << listed[1], EncryptKwargs(a) >>),
                                       encrypted) >>
             IN  IF ~encrypted.ok
                 THEN Result(Raise("KeybasePublicKeyEncryptError",
                                   << "unable to encrypt data" >>), None, engine)
                 ELSE Result(Returned,
                             Some([type |-> IF a.armor THEN "str" ELSE "Crypt",
                                   data |-> encrypted.data]),
                             engine)

\* KeybasePublicKey.encrypt; listed is what list_keys() gives for the keyring,
\* encrypted is the engine's answer
KeyEncrypt(obj, a, listed, encrypted) ==
    LET homedir == obj.__gpg[1].homedir
        list_keys == Answered(EngineCall("list_keys", homedir, << >>), listed)
    IN  IF EncryptCheck(obj, a) # Returned
        THEN Result(EncryptCheck(obj, a), None, << >>)
        ELSE IF listed = << >>
        THEN Result(Raise("IndexError", << "list index out of range" >>), None,
                    << list_keys >>)
        ELSE LET engine == << list_keys,
                              Answered(EngineCall("encrypt", homedir,
                                                  << listed[1], EncryptKwargs(a) >>),
                                       encrypted) >>
             IN  IF ~encrypted.ok
                 THEN Result(Raise("KeybasePublicKeyEncryptError",
                                   << "unable to encrypt data" >>), None, engine)
                 ELSE Result(Returned,
                             Some([type |-> IF a.armor THEN "str" ELSE "Crypt",
                                   data |-> encrypted.data]),
                             engine)

AlgoChoices(good, bad) == { None, Some(""), Some(good), Some(bad) }
AllEncryptArgs ==
    { EncryptArgs(armor, c, d, z) :
        armor \in BOOLEAN, c \in AlgoChoices("AES256", "ROT13"),
        d \in AlgoChoices("SHA512", "MD4"),
        z \in AlgoChoices("ZLIB", "LZMA") \cup { Some("BZIP2") } }

\* the key records a caller holds: those whose constructor returned
Held == { id \in DOMAIN records : records[id].raised = Returned }

\* pkey.verify(data, throw_error)
Verify(id, throw_error, vobj) ==
    /\ id \in Held
    /\ LET r == KeyVerify(records[id], throw_error, vobj)
       IN  last' = Call("pkey.verify", << id, throw_error >>, r.raised, r.ret, << >>, r.engine)
    /\ UNCHANGED << client, admin, records, keyrings >>

\* pkey.verify_file(fname, sigfname, throw_error)
VerifyFile(id, sigfname, throw_error, opened, vobj) ==
    /\ id \in Held
    /\ LET r == KeyVerifyFile(records[id], sigfname, throw_error, opened, vobj)
       IN  last' = Call("pkey.verify_file", << id, sigfname, throw_error >>,
                        r.raised, r.ret, << >>, r.engine)
    /\ UNCHANGED << client, admin, records, keyrings >>

\* pkey.encrypt(data, armor, cipher_algo, digest_algo, compress_algo)
Encrypt(id, a, encrypted) ==
    /\ id \in Held
    /\ LET r == KeyEncrypt(records[id], a, keyrings[records[id].__tempdir], encrypted)
       IN  last' = Call("pkey.encrypt", << id, a >>, r.raised, r.ret, << >>, r.engine)
    /\ UNCHANGED << client, admin, records, keyrings >>

-----------------------------------------------------------------------------
(* Keybase: get_public_key and the methods that use the primary key *)

\* what a caller does with the record get_public_key returned, listed being
\* the keys of its keyring: keep it, or call the method u names on it
Use(u, obj, listed) ==
    CASE u.method = "keep" -> Result(Returned, Some(obj.id), << >>)
      [] u.method = "verify" -> KeyVerify(obj, u.throw_error, u.vobj)
      [] u.method = "verify_file" ->
            KeyVerifyFile(obj, u.sigfname, u.throw_error, u.opened, u.vobj)
      [] u.method = "encrypt" -> KeyEncrypt(obj, u.a, listed, u.encrypted)

\* KeybasePublicKey(**key_data) called by the client, and the use u the caller
\* then makes of the new record
ClientKey(limit, op, args, kwargs, u) ==
    /\ FreeId(limit) # 0
    /\ \E d \in mkdtemp(limit) :
        LET init == KeyInit(kwargs, d)
            id == FreeId(limit)
            r == IF init.raised # Returned
                 THEN Result(init.raised, None, << >>)
                 ELSE Use(u, init.obj @@ [id |-> id], init.keyring)
        IN  /\ Created(id, d, init)
            /\ last' = Call(op, args, r.raised, r.ret, << >>, init.engine \o r.engine)

\* the attribute map of the primary key whatever the name asked for
KeyDataPrimary(keyname) ==
    _user_object[1]["public_keys"][IF "primary" \in DOMAIN _user_object[1]["public_keys"]
                                   THEN "primary" ELSE keyname]

\* Keybase.get_public_key, line 353: the attribute map under keyname
key_data(keyname) == _user_object[1]["public_keys"][keyname]

\* Keybase.get_public_key; missing is what the caller makes of a None result
get_public_key(limit, op, args, keyname, u, missing) ==
    LET unbound == _raise_unbound_error("Unable to fetch public key")
    IN  IF unbound # Returned
        THEN /\ last' = Call(op, args, unbound, None, << >>, << >>)
             /\ UNCHANGED << records, keyrings >>
        ELSE IF keyname \in Range(public_keys)
        THEN ClientKey(limit, op, args, key_data(keyname), u)
        ELSE /\ last' = Call(op, args, missing, None, << >>, << >>)
             /\ UNCHANGED << records, keyrings >>

\* None.verify(...), None.verify_file(...), None.encrypt(...)
NoneHasNo(method) ==
    Raise("AttributeError", << "'NoneType' object has no attribute ", method >>)

\* kbase.get_public_key(keyname), and kbase.get_public_key() when arg is None
GetPublicKey(limit, arg) ==
    LET keyname == IF arg = None THEN "primary" ELSE arg[1]
    IN  /\ get_public_key(limit, "get_public_key", << arg >>, keyname,
                          [method |-> "keep"], Returned)
        /\ UNCHANGED << client, admin >>

\* Keybase.verify
KeybaseVerify(limit, throw_error, vobj) ==
    LET u == [method |-> "verify", throw_error |-> throw_error, vobj |-> vobj]
    IN  /\ get_public_key(limit, "verify", << throw_error >>, "primary", u, NoneHasNo("verify"))
        /\ UNCHANGED << client, admin >>

\* Keybase.verify_file
KeybaseVerifyFile(limit, sigfname, throw_error, opened, vobj) ==
    LET u == [method |-> "verify_file", sigfname |-> sigfname,
              throw_error |-> throw_error, opened |-> opened, vobj |-> vobj]
    IN  /\ get_public_key(limit, "verify_file", << sigfname, throw_error >>, "primary", u,
                          NoneHasNo("verify_file"))
        /\ UNCHANGED << client, admin >>

\* Keybase.encrypt
KeybaseEncrypt(limit, a, encrypted) ==
    LET u == [method |-> "encrypt", a |-> a, encrypted |-> encrypted]
    IN  /\ get_public_key(limit, "encrypt", << a >>, "primary", u, NoneHasNo("encrypt"))
        /\ UNCHANGED << client, admin >>

\* the calls of verify, verify_file and encrypt the client specification makes:
\* the arguments and what the file system and the engine answer
File(sigfname, throw_error, opened, vobj) ==
    [sigfname |-> sigfname, throw_error |-> throw_error, opened |-> opened, vobj |-> vobj]
SomeFiles ==
    { File(None, FALSE, TRUE, v) : v \in Verdicts }
    \cup { File(Some("sigfname"), TRUE, TRUE, v) : v \in Verdicts }
    \cup { File(None, FALSE, FALSE, v) : v \in Verdicts }
SomeEncryptArgs ==
    { EncryptArgs(TRUE, None, None, None), EncryptArgs(FALSE, Some("AES256"), None, None),
      EncryptArgs(TRUE, None, Some("MD4"), None) }

-----------------------------------------------------------------------------
(* class KeybaseAdmin *)

\* the answers to getsalt.json: a salt with its challenge, and answers that
\* lack one of the two or both
SaltResponses ==
    { ("status" :> StatusOk) @@ ("salt" :> "5838c1") @@ ("login_session" :> "lgHZIDU4"),
      ("status" :> StatusOk) @@ ("salt" :> "e4725d") @@ ("login_session" :> "lgHZIGU0"),
      ("status" :> StatusOk) @@ ("salt" :> "5838c1"),
      ("status" :> StatusOk) @@ ("login_session" :> "lgHZIDU4"),
      ("status" :> ("name" :> "INPUT_ERROR")) }

\* the answers to login.json: with a session, with an empty one, with none
LoginResponses ==
    { ("status" :> StatusOk) @@ ("session" :> "cookie1"),
      ("status" :> StatusOk) @@ ("session" :> "cookie2"),
      ("status" :> StatusOk) @@ ("session" :> ""),
      ("status" :> ("name" :> "BAD_LOGIN_PASSWORD")) }

\* KeybaseAdmin.salt, KeybaseAdmin.session
salt == __salt
session == __session_cookie

\* _get_salt storing the salt as soon as the response has one
GetSaltStoreFirst(http) ==
    LET unbound == _raise_unbound_error("Unable to retrieve salt from keybase.io")
        request == Request("getsalt.json", "get", ("email_or_username" :> _username), http)
        failed(raised, requests) ==
            [__salt |-> __salt, raised |-> raised, ret |-> None, requests |-> requests]
    IN  IF unbound # Returned THEN failed(unbound, << >>)
        ELSE IF http.raised # Returned THEN failed(http.raised, << request >>)
        ELSE IF ~("salt" \in DOMAIN http.json)
        THEN failed(Raise("KeybaseError", << "_get_salt(): No salt value returned for login" >>),
                    << request >>)
        ELSE IF ~("login_session" \in DOMAIN http.json)
        THEN [__salt |-> Some(http.json["salt"]),
              raised |-> Raise("KeybaseError",
                               << "_get_salt(): No login_session value returned for login" >>),
              ret |-> None, requests |-> << request >>]
        ELSE [__salt |-> Some(http.json["salt"]), raised |-> Returned,
              ret |-> Some(http.json["login_session"]), requests |-> << request >>]

\* KeybaseAdmin._get_salt: the salt afterwards, what it raised, what it
\* returned and the requests it issued
_get_salt(http) ==
    LET unbound == _raise_unbound_error("Unable to retrieve salt from keybase.io")
        request == Request("getsalt.json", "get", ("email_or_username" :> _username), http)
        failed(raised, requests) ==
            [__salt |-> __salt, raised |-> raised, ret |-> None, requests |-> requests]
    IN  IF unbound # Returned THEN failed(unbound, << >>)
        ELSE IF http.raised # Returned THEN failed(http.raised, << request >>)
        ELSE IF ~("salt" \in DOMAIN http.json)
        THEN failed(Raise("KeybaseError", << "_get_salt(): No salt value returned for login" >>),
                    << request >>)
        ELSE IF ~("login_session" \in DOMAIN http.json)
        THEN failed(Raise("KeybaseError",
                          << "_get_salt(): No login_session value returned for login" >>),
                    << request >>)
        ELSE [__salt |-> Some(http.json["salt"]), raised |-> Returned,
              ret |-> Some(http.json["login_session"]), requests |-> << request >>]

\* hmac.new(scrypt.hash(passphrase, salt)[192:224], login_session, sha512)
HmacPwh(passphrase, with_salt, login_session) ==
    << "hmac_sha512", passphrase, with_salt, login_session >>

\* kbase._get_salt()
GetSalt(http) ==
    LET r == _get_salt(http)
    IN  /\ __salt' = r.__salt
        /\ last' = Call("_get_salt", << >>, r.raised, r.ret, r.requests, << >>)
        /\ UNCHANGED << client, __session_cookie, __user_object, records, keyrings >>

\* a login that keeps the session cookie of an earlier login
LoginFirstSession(passphrase, http1, http2) ==
    LET unbound == _raise_unbound_error("Unable to log in to keybase.io")
        round1 == _get_salt(http1)
        request == Request("login.json", "post",
                           ("email_or_username" :> _username)
                           @@ ("hmac_pwh" :> HmacPwh(passphrase, round1.__salt[1], round1.ret[1]))
                           @@ ("login_session" :> round1.ret[1]),
                           http2)
    IN  /\ IF unbound # Returned
           THEN /\ last' = Call("login", << passphrase >>, unbound, None, << >>, << >>)
                /\ UNCHANGED admin
           ELSE IF round1.raised # Returned
           THEN /\ last' = Call("login", << passphrase >>, round1.raised, None,
                                round1.requests, << >>)
                /\ UNCHANGED admin
           ELSE /\ __salt' = round1.__salt
                /\ IF http2.raised # Returned
                   THEN /\ last' = Call("login", << passphrase >>, http2.raised, None,
                                        round1.requests \o << request >>, << >>)
                        /\ UNCHANGED << __session_cookie, __user_object >>
                   ELSE /\ __user_object' = Some(http2.json)
                        /\ IF ~("session" \in DOMAIN http2.json)
                           THEN /\ last' = Call("login", << passphrase >>,
                                                Raise("KeyError", << "session" >>), None,
                                                round1.requests \o << request >>, << >>)
                                /\ UNCHANGED __session_cookie
                           ELSE IF http2.json["session"] = ""
                           THEN /\ last' = Call("login", << passphrase >>,
                                                Raise("AssertionError",
                                                      << "Session doesn't exist in login response" >>),
                                                None, round1.requests \o << request >>, << >>)
                                /\ UNCHANGED __session_cookie
                           ELSE /\ __session_cookie' = IF __session_cookie = None
                                                      THEN Some(http2.json["session"])
                                                      ELSE __session_cookie
                                /\ last' = Call("login", << passphrase >>, Returned, Some(TRUE),
                                                round1.requests \o << request >>, << >>)
        /\ UNCHANGED << client, records, keyrings >>

\* a login that answers the challenge a preceding _get_salt call returned
LoginEarlierToken(passphrase, http1, http2) ==
    LET unbound == _raise_unbound_error("Unable to log in to keybase.io")
        round1 == _get_salt(http1)
        login_session == IF last.op = "_get_salt" /\ last.ret # None
                         THEN last.ret[1] ELSE round1.ret[1]
        request == Request("login.json", "post",
                           ("email_or_username" :> _username)
                           @@ ("hmac_pwh" :> HmacPwh(passphrase, round1.__salt[1], login_session))
                           @@ ("login_session" :> login_session),
                           http2)
    IN  /\ IF unbound # Returned
           THEN /\ last' = Call("login", << passphrase >>, unbound, None, << >>, << >>)
                /\ UNCHANGED admin
           ELSE IF round1.raised # Returned
           THEN /\ last' = Call("login", << passphrase >>, round1.raised, None,
                                round1.requests, << >>)
                /\ UNCHANGED admin
           ELSE /\ __salt' = round1.__salt
                /\ IF http2.raised # Returned
                   THEN /\ last' = Call("login", << passphrase >>, http2.raised, None,
                                        round1.requests \o << request >>, << >>)
                        /\ UNCHANGED << __session_cookie, __user_object >>
                   ELSE /\ __user_object' = Some(http2.json)
                        /\ IF ~("session" \in DOMAIN http2.json)
                           THEN /\ last' = Call("login", << passphrase >>,
                                                Raise("KeyError", << "session" >>), None,
                                                round1.requests \o << request >>, << >>)
                                /\ UNCHANGED __session_cookie
                           ELSE IF http2.json["session"] = ""
                           THEN /\ last' = Call("login", << passphrase >>,
                                                Raise("AssertionError",
                                                      << "Session doesn't exist in login response" >>),
                                                None, round1.requests \o << request >>, << >>)
                                /\ UNCHANGED __session_cookie
                           ELSE /\ __session_cookie' = Some(http2.json["session"])
                                /\ last' = Call("login", << passphrase >>, Returned, Some(TRUE),
                                                round1.requests \o << request >>, << >>)
        /\ UNCHANGED << client, records, keyrings >>

\* KeybaseAdmin.login; http1 answers the getsalt request, http2 the login request
Login(passphrase, http1, http2) ==
    LET unbound == _raise_unbound_error("Unable to log in to keybase.io")
        round1 == _get_salt(http1)
        request == Request("login.json", "post",
                           ("email_or_username" :> _username)
                           @@ ("hmac_pwh" :> HmacPwh(passphrase, round1.__salt[1], round1.ret[1]))
                           @@ ("login_session" :> round1.ret[1]),
                           http2)
    IN  /\ IF unbound # Returned
           THEN /\ last' = Call("login", << passphrase >>, unbound, None, << >>, << >>)
                /\ UNCHANGED admin
           ELSE IF round1.raised # Returned
           THEN /\ last' = Call("login", << passphrase >>, round1.raised, None,
                                round1.requests, << >>)
                /\ UNCHANGED admin
           ELSE /\ __salt' = round1.__salt
                /\ IF http2.raised # Returned
                   THEN /\ last' = Call("login", << passphrase >>, http2.raised, None,
                                        round1.requests \o << request >>, << >>)
                        /\ UNCHANGED << __session_cookie, __user_object >>
                   ELSE /\ __user_object' = Some(http2.json)
                        /\ IF ~("session" \in DOMAIN http2.json)
                           THEN /\ last' = Call("login", << passphrase >>,
                                                Raise("KeyError", << "session" >>), None,
                                                round1.requests \o << request >>, << >>)
                                /\ UNCHANGED __session_cookie
                           ELSE IF http2.json["session"] = ""
                           THEN /\ last' = Call("login", << passphrase >>,
                                                Raise("AssertionError",
                                                      << "Session doesn't exist in login response" >>),
                                                None, round1.requests \o << request >>, << >>)
                                /\ UNCHANGED __session_cookie
                           ELSE /\ __session_cookie' = Some(http2.json["session"])
                                /\ last' = Call("login", << passphrase >>, Returned, Some(TRUE),
                                                round1.requests \o << request >>, << >>)
        /\ UNCHANGED << client, records, keyrings >>

ReadSalt ==
    /\ last' = Call("salt", << >>, Returned, salt, << >>, << >>)
    /\ UNCHANGED << client, admin, records, keyrings >>

ReadSession ==
    /\ last' = Call("session", << >>, Returned, session, << >>, << >>)
    /\ UNCHANGED << client, admin, records, keyrings >>

-----------------------------------------------------------------------------------------------------------------------------------------------------
(* The client specification: one KeybaseAdmin instance, every method of it   *)
(* and the key records it makes                                              *)

\* the client specification: one key record of the client alive at a time
ClientLimit == Limit(MaxClientKeys, MaxClientKeys)

\* the lookups a caller tries after construction, and the login exchanges
RetryResponses ==
    { ("status" :> StatusOk) @@ ("them" :> ThemIrc),
      ("status" :> StatusOk) @@ ("them" :> EmptyDict),
      ("status" :> ("name" :> "NOT_FOUND")),
      ("them" :> ThemIrc) }
Exchange(http1, http2) == [http1 |-> http1, http2 |-> http2]
Logins ==
    { Exchange(HttpOk(r1), h2) :
        r1 \in { r \in SaltResponses : { "salt", "login_session" } \subseteq DOMAIN r },
        h2 \in Http(LoginResponses) }
    \cup { Exchange(h1, HttpFailed) :
        h1 \in { HttpFailed } \cup
               { HttpOk(r) : r \in { r \in SaltResponses :
                                        ~({ "salt", "login_session" } \subseteq DOMAIN r) } } }

Init ==
    /\ \E uname \in Handles, http \in Http(LookupResponses) : Construct(uname, http)
    /\ records = EmptyDict
    /\ keyrings = EmptyDict

Next ==
    \/ \E uname \in Handles, http \in Http(RetryResponses) : Lookup(uname, http)
    \/ ReadName
    \/ ReadLocation
    \/ ReadUsername
    \/ ReadIsBound
    \/ ReadPublicKeys
    \/ \E arg \in { None } \cup { Some(k) : k \in KeyNames } : GetPublicKey(ClientLimit, arg)
    \/ \E throw_error \in BOOLEAN, vobj \in Verdicts :
            KeybaseVerify(ClientLimit, throw_error, vobj)
    \/ \E f \in SomeFiles :
            KeybaseVerifyFile(ClientLimit, f.sigfname, f.throw_error, f.opened, f.vobj)
    \/ \E a \in SomeEncryptArgs, encrypted \in Ciphertexts :
            KeybaseEncrypt(ClientLimit, a, encrypted)
    \/ \E http \in Http(SaltResponses) : GetSalt(http)
    \/ \E x \in Logins : Login("passphrase", x.http1, x.http2)
    \/ ReadSalt
    \/ ReadSession
    \/ \E id \in DOMAIN records : Del(id)

Spec == Init /\ [][Next]_vars

-----------------------------------------------------------------------------
(* The key record specification: the life of one key record, which a caller  *)
(* constructs from any attribute map, uses, and drops before the next        *)

BoundTo(them) == Construct("irc", HttpOk(("status" :> StatusOk) @@ ("them" :> them)))

KeyLimit == Limit(MaxRecords, MaxDirs)

InitKey ==
    /\ BoundTo(ThemIrc)
    /\ records = EmptyDict
    /\ keyrings = EmptyDict

NextKey ==
    \/ \E kwargs \in KeyData : records = EmptyDict /\ NewKey(KeyLimit, kwargs)
    \/ \E id \in DOMAIN records, throw_error \in BOOLEAN, vobj \in Verdicts :
            Verify(id, throw_error, vobj)
    \/ \E id \in DOMAIN records, sigfname \in { None, Some("sigfname") },
          throw_error \in BOOLEAN, opened \in BOOLEAN, vobj \in Verdicts :
            VerifyFile(id, sigfname, throw_error, opened, vobj)
    \/ \E id \in DOMAIN records, a \in AllEncryptArgs, encrypted \in Ciphertexts :
            Encrypt(id, a, encrypted)
    \/ \E id \in DOMAIN records : Del(id)

SpecKey == InitKey /\ [][NextKey]_vars

-----------------------------------------------------------------------------
(* The keyring specification: several key records of bound clients alive     *)
(* together, made by get_public_key and collected in any order               *)

InitRing ==
    /\ \E them \in { ThemIrc, ThemForged } : BoundTo(them)
    /\ records = EmptyDict
    /\ keyrings = EmptyDict

NextRing ==
    \/ \E arg \in { None } \cup { Some(k) : k \in KeyNames } : GetPublicKey(KeyLimit, arg)
    \/ \E id \in DOMAIN records, throw_error \in BOOLEAN, vobj \in Verdicts :
            Verify(id, throw_error, vobj)
    \/ \E id \in DOMAIN records, a \in SomeEncryptArgs, encrypted \in Ciphertexts :
            Encrypt(id, a, encrypted)
    \/ \E id \in DOMAIN records : Del(id)

SpecRing == InitRing /\ [][NextRing]_vars

-----------------------------------------------------------------------------
(* gpg and _which; the resolver specification: one call of gpg() in a host  *)
(* environment drawn at the start                                           *)

\* Names are strings, kept as sequences of characters; a path is a directory
\* and a name in it.
Name_gpg2 == << "g", "p", "g", "2" >>
Name_gpg == << "g", "p", "g" >>
Ext_exe == << ".", "e", "x", "e" >>
Join_path(dir, fname) == [dir |-> dir, name |-> fname]

\* The host: PATH (None when unset, else its directories in order), the
\* entries of PATHEXT, and the paths for which os.access(path, X_OK) holds.
PathDirs == { "/usr/local/bin", "/usr/bin" }
HostFiles ==
    { Join_path("/usr/local/bin", Name_gpg2),
      Join_path("/usr/bin", Name_gpg2),
      Join_path("/usr/bin", Name_gpg),
      Join_path("/usr/local/bin", Name_gpg2 \o Ext_exe),
      Join_path("/usr/bin", Name_gpg \o Ext_exe),
      Join_path("/usr/local/bin", << "g" >>),
      Join_path("/usr/bin", << "p" >>) }
Hosts ==
    { [PATH |-> p, PATHEXT |-> x, access |-> f] :
        p \in { None } \cup { Some(s) : s \in SeqsUpTo(PathDirs, MaxPath) \ { << >> } },
        x \in { << >>, << Ext_exe >> },
        f \in SUBSET HostFiles }

\* os.path.realpath: /usr/local/bin/gpg2, when it is there, is a symlink
realpath(host, path) ==
    IF path = Join_path("/usr/local/bin", Name_gpg2) /\ path \in host.access
    THEN Join_path("/usr/local/Cellar/gnupg2/bin", Name_gpg2)
    ELSE path

\* _which, lines 151-156: what one directory of PATH adds to the result
WhichIn(host, tpath) ==
    (IF tpath \in host.access THEN << tpath >> ELSE << >>)
    \o LET hits == { i \in DOMAIN host.PATHEXT :
                        Join_path(tpath.dir, tpath.name \o host.PATHEXT[i]) \in host.access }
       IN  [k \in 1..Cardinality(hits) |-> tpath]

\* _which(executable)
RECURSIVE WhichFrom(_, _, _)
WhichFrom(host, dirs, executable) ==
    IF dirs = << >> THEN << >>
    ELSE WhichIn(host, Join_path(Head(dirs), executable))
         \o WhichFrom(host, Tail(dirs), executable)
_which(host, executable) ==
    IF host.PATH = None THEN << >> ELSE WhichFrom(host, host.PATH[1], executable)

\* gpg, lines 116-119: list(binary) for a custom name, else ('gpg2', 'gpg')
search_list(binary) ==
    IF binary # None /\ binary[1] # << >>
    THEN [i \in DOMAIN binary[1] |-> << binary[1][i] >>]
    ELSE << Name_gpg2, Name_gpg >>

\* gpg, lines 120-124: the first name of the list that _which finds
RECURSIVE FirstFound(_, _)
FirstFound(host, names) ==
    IF names = << >> THEN None
    ELSE IF Len(_which(host, Head(names))) > 0
    THEN Some(realpath(host, _which(host, Head(names))[1]))
    ELSE FirstFound(host, Tail(names))

\* gpg(binary)
gpg(host, binary) == FirstFound(host, search_list(binary))

\* the custom names a caller passes: none, 'gpg', 'g'
Binaries == { None, Some(Name_gpg), Some(<< "g" >>) }

\* keybase.gpg(binary) on the host drawn at the start
Gpg ==
    /\ last.op = "environ"
    /\ last' = Call("gpg", last.args, Returned, gpg(last.args[1], last.args[2]), << >>, << >>)
    /\ UNCHANGED << client, admin, records, keyrings >>

InitGpg ==
    /\ _username = None
    /\ _user_object = None
    /\ __lookup_performed = FALSE
    /\ __salt = None
    /\ __session_cookie = None
    /\ __user_object = None
    /\ records = EmptyDict
    /\ keyrings = EmptyDict
    /\ \E host \in Hosts, binary \in Binaries :
            last = Call("environ", << host, binary >>, Returned, None, << >>, << >>)

NextGpg == Gpg

SpecGpg == InitGpg /\ [][NextGpg]_vars

-----------------------------------------------------------------------------
(* discover; the discovery specification: calls of discover on any          *)
(* identifier type, with any answer of the directory to the discover        *)
(* request and to the lookup of each match                                  *)

\* TWITTER, GITHUB, HACKERNEWS, WEB, COINBASE, KEYFINGERPRINT
IdTypes == { "twitter", "github", "hackernews", "web", "coinbase", "key_fingerprint" }

\* (',').join(ids)
RECURSIVE Join(_)
Join(ids) ==
    IF ids = << >> THEN << >>
    ELSE IF Len(ids) = 1 THEN << ids[1] >>
    ELSE << ids[1], "," >> \o Join(Tail(ids))

\* discover, lines 89-92: the checks of the response
DiscoverCheck(jresponse) ==
    IF ~("status" \in DOMAIN jresponse) \/ ~("name" \in DOMAIN jresponse["status"])
    THEN Raise("KeybaseError", << "Malformed API response to user/discover.json request" >>)
    ELSE IF ~("matches" \in DOMAIN jresponse)
    THEN Raise("KeybaseError", << "Malformed API response to user/discover.json request" >>)
    ELSE Returned

\* discover, lines 93-95: Keybase(uid) for each uid of matches in turn, the
\* i-th lookup answered by answers[i]; stops at the first constructor that raises
RECURSIVE Clients(_, _, _)
Clients(matches, answers, i) ==
    IF i > Len(matches) THEN [raised |-> Returned, uids |-> << >>, requests |-> << >>]
    ELSE LET k == __lookup(Fresh, matches[i], answers[i])
         IN  IF k.raised # Returned
             THEN [raised |-> k.raised, uids |-> << >>, requests |-> k.requests]
             ELSE LET rest == Clients(matches, answers, i + 1)
                  IN  [raised |-> rest.raised,
                       uids |-> << [_username |-> k._username,
                                    _user_object |-> k._user_object,
                                    __lookup_performed |-> k.__lookup_performed] >>
                                \o rest.uids,
                       requests |-> k.requests \o rest.requests]

\* discover(idtype, ids): what it raised, the tuple it returned and the
\* requests it issued
discover(idtype, ids, http, answers) ==
    LET request == Request("user/discover.json", "get",
                           (idtype :> Join(ids)) @@ ("usernames_only" :> << 1 >>)
                           @@ ("flatten" :> << 1 >>),
                           http)
    IN  IF idtype \notin IdTypes
        THEN [raised |-> Raise("KeybaseInvalidIdTypeError", << >>), ret |-> None,
              requests |-> << >>]
        ELSE IF http.raised # Returned
        THEN [raised |-> http.raised, ret |-> None, requests |-> << request >>]
        ELSE IF DiscoverCheck(http.json) # Returned
        THEN [raised |-> DiscoverCheck(http.json), ret |-> None, requests |-> << request >>]
        ELSE LET made == Clients(http.json["matches"], answers, 1)
             IN  [raised |-> made.raised,
                  ret |-> IF made.raised = Returned THEN Some(made.uids) ELSE None,
                  requests |-> << request >> \o made.requests]

\* keybase.discover(idtype, ids)
Discover(idtype, ids, http, answers) ==
    LET r == discover(idtype, ids, http, answers)
    IN  /\ last' = Call("discover", << idtype, ids >>, r.raised, r.ret, r.requests, << >>)
        /\ UNCHANGED << client, admin, records, keyrings >>

\* the answers to the discover request and to the lookup of a match
DiscoverResponses ==
    { ("status" :> StatusOk) @@ ("matches" :> m) : m \in SeqsUpTo(Handles, MaxMatches) }
    \cup { ("status" :> StatusOk),
           ("matches" :> << "irc" >>),
           ("status" :> ("code" :> 0)) @@ ("matches" :> << "irc" >>) }
MatchAnswers ==
    { HttpOk(("status" :> StatusOk) @@ ("them" :> ThemIrc)),
      HttpOk(("status" :> StatusOk) @@ ("them" :> EmptyDict)),
      HttpOk(("status" :> ("name" :> "NOT_FOUND"))) }
Matches(http) ==
    IF http.raised = Returned /\ "matches" \in DOMAIN http.json
    THEN http.json["matches"] ELSE << >>

InitDiscover ==
    /\ BoundTo(ThemIrc)
    /\ records = EmptyDict
    /\ keyrings = EmptyDict

NextDiscover ==
    \E idtype \in { "twitter", "key_fingerprint", "invalidtype" },
       ids \in { << >>, << "ircri" >>, << "ircri", "jack" >> },
       http \in Http(DiscoverResponses) :
        \E answers \in [1..Len(Matches(http)) -> MatchAnswers] :
            Discover(idtype, ids, http, answers)

SpecDiscover == InitDiscover /\ [][NextDiscover]_vars

-----------------------------------------------------------------------------
(* Claims about the directory client, checked under Spec *)

\* the last call was a lookup (from the constructor or later) that got an answer
LookupAnswered ==
    /\ last.op \in { "__init__", "lookup" }
    /\ last.requests # << >>
    /\ last.requests[1].answer.raised = Returned

Unset == _username = None /\ _user_object = None /\ ~__lookup_performed

\* C1: a lookup decides on the response in this order: no status section or no
\* status name gives KeybaseError; else a status name NOT_FOUND or INPUT_ERROR
\* gives KeybaseUserNotFound; else no 'them' section gives KeybaseError; else
\* the lookup succeeds. In the three failing cases the handle, the identity
\* record and the lookup-performed flag are left unset.
C1_LookupOrder ==
    LookupAnswered =>
        LET j == last.requests[1].answer.json
            no_status == ~("status" \in DOMAIN j) \/ ~("name" \in DOMAIN j["status"])
            not_found == ~no_status /\ j["status"]["name"] \in { "NOT_FOUND", "INPUT_ERROR" }
            no_them == ~("them" \in DOMAIN j)
        IN  /\ no_status => last.raised.cls = "KeybaseError" /\ Unset
            /\ not_found => last.raised.cls = "KeybaseUserNotFound" /\ Unset
            /\ (~no_status /\ ~not_found /\ no_them) =>
                    last.raised.cls = "KeybaseError" /\ Unset
            /\ (~no_status /\ ~not_found /\ ~no_them) => last.raised = Returned

\* C1 witness: a not-found status without a 'them' section was answered with
\* the not-found error
C1_Witness ==
    /\ LookupAnswered
    /\ "status" \in DOMAIN last.requests[1].answer.json
    /\ "name" \in DOMAIN last.requests[1].answer.json["status"]
    /\ last.requests[1].answer.json["status"]["name"] = "NOT_FOUND"
    /\ ~("them" \in DOMAIN last.requests[1].answer.json)
    /\ last.raised.cls = "KeybaseUserNotFound"
    /\ Unset

\* C2: a lookup on an instance whose earlier lookup succeeded fails with
\* KeybaseLookupInvalidError whatever the handle, issues no directory request
\* and changes neither the handle nor the identity record.
C2_SecondLookupRefused ==
    [][(__lookup_performed /\ last'.op = "lookup") =>
            /\ last'.raised.cls = "KeybaseLookupInvalidError"
            /\ last'.requests = << >>
            /\ _username' = _username
            /\ _user_object' = _user_object]_vars

\* C2 witness: a lookup of another handle was refused on a bound instance
C2_Witness ==
    /\ last.op = "lookup"
    /\ last.raised.cls = "KeybaseLookupInvalidError"
    /\ __lookup_performed
    /\ _username # Some(last.args[1])

\* C3: once a successful lookup has set the handle and the identity record, no
\* later call changes them: not a further lookup, an accessor, get_public_key,
\* verify, verify_file, encrypt, _get_salt or login, whether it succeeds or
\* fails; the response login stores does not replace the identity record.
C3_WriteOnce ==
    [][__lookup_performed =>
            /\ __lookup_performed'
            /\ _username' = _username
            /\ _user_object' = _user_object]_vars

\* C3 witness: a login succeeded and stored its response, and the identity
\* record the accessors read is still the one the lookup bound
C3_Witness ==
    /\ last.op = "login"
    /\ last.raised = Returned
    /\ __user_object # None
    /\ __user_object # _user_object
    /\ _user_object = Some(ThemIrc)
    /\ name = Some("Ian Chesal")

\* C4 as stated: after every successful lookup the instance is bound: is_bound
\* is true, the handle accessor returns the handle looked up, and no later
\* call fails with KeybaseUnboundInstanceError; also when 'them' is empty.
\* The code binds an empty 'them' and then reads the instance as unbound.
C4_BoundAfterSuccess ==
    __lookup_performed =>
        /\ is_bound
        /\ (LookupAnswered /\ last.raised = Returned) => username = Some(last.args[1])
        /\ last.raised.cls # "KeybaseUnboundInstanceError"

\* C5 as stated: on an instance that is not bound, get_public_key fails with
\* KeybaseUnboundInstanceError, the name, location and handle accessors return
\* None and the list of key names is the empty tuple. After a lookup that
\* succeeded with an empty 'them' (C4) the handle accessor returns the handle.
C5_UnboundReadsNothing ==
    ~is_bound =>
        /\ username = None
        /\ name = None
        /\ location = None
        /\ public_keys = << >>
        /\ last.op = "get_public_key" =>
                last.raised.cls = "KeybaseUnboundInstanceError" /\ last.ret = None

-----------------------------------------------------------------------------
(* Claims about key records, checked under SpecKey and SpecRing *)

\* the key name a get_public_key call asked for
AskedKey(call) == IF call.args[1] = None THEN "primary" ELSE call.args[1][1]

\* C6 as stated: on a bound instance get_public_key returns a key record
\* exactly when the key name is listed by public_keys, and None without an
\* error when it is not.
C6_RecordWheneverListed ==
    (last.op = "get_public_key" /\ is_bound) =>
        /\ AskedKey(last) \in Range(public_keys) <=> last.ret # None
        /\ last.raised = Returned

\* the object's attributes are those of the map, the times converted
BuiltFrom(data, map) ==
    /\ DOMAIN data = DOMAIN map
    /\ \A f \in DOMAIN map :
        IF f \in { "mtime", "ctime" } THEN data[f] = << "datetime", map[f] >>
        ELSE data[f] = map[f]

\* C6: on a bound instance get_public_key(keyname) constructs a key record from
\* the attribute map stored under keyname in the identity record's public_keys
\* exactly when keyname is listed by public_keys: it returns the record when
\* the construction succeeds and fails with the constructor's error when it
\* does not. When keyname is not listed it returns None with no error, no key
\* record constructed and no keyring created. With no argument the name is
\* 'primary'.
C6_GetPublicKey ==
    [][(last'.op = "get_public_key" /\ is_bound) =>
        IF AskedKey(last') \in Range(public_keys)
        THEN \E id \in DOMAIN records' \ DOMAIN records :
                /\ BuiltFrom(records'[id].__data,
                             _user_object[1]["public_keys"][AskedKey(last')])
                /\ DOMAIN records' = DOMAIN records \cup { id }
                /\ last'.raised = records'[id].raised
                /\ last'.ret = IF records'[id].raised = Returned THEN Some(id) ELSE None
        ELSE /\ last'.raised = Returned
             /\ last'.ret = None
             /\ last'.engine = << >>
             /\ records' = records
             /\ keyrings' = keyrings]_vars

\* C6 witness: get_public_key() without a name returned a record built from
\* the primary key while another record was alive
C6_Witness ==
    /\ last.op = "get_public_key"
    /\ last.args[1] = None
    /\ last.raised = Returned
    /\ last.ret # None
    /\ last.ret[1] \in DOMAIN records
    /\ records[last.ret[1]].__data["kid"] = KeyIrc["kid"]
    /\ Cardinality(DOMAIN records) = 2

\* C7: a construction whose import reports any fingerprint that differs, after
\* lower-casing, from the declared fingerprint fails with the fingerprint
\* mismatch KeybasePublicKeyError; every key in the keyring of a record that was
\* returned to a caller has the declared fingerprint, and verify, verify_file
\* and encrypt only ever run on such records.
C7_MismatchFails ==
    /\ \A id \in DOMAIN records :
        LET data == records[id].__data
        IN  /\ ( /\ "bundle" \in DOMAIN data
                 /\ data["bundle"].nonempty
                 /\ "key_fingerprint" \in DOMAIN data
                 /\ \E i \in DOMAIN data["bundle"].keys :
                        Lower(data["bundle"].keys[i]) # Lower(data["key_fingerprint"]) )
                => records[id].raised = ErrMismatch
            /\ records[id].raised = Returned =>
                \A i \in DOMAIN keyrings[records[id].__tempdir] :
                    /\ "key_fingerprint" \in DOMAIN data
                    /\ Lower(keyrings[records[id].__tempdir][i]) = Lower(data["key_fingerprint"])
    /\ last.op \in { "pkey.verify", "pkey.verify_file", "pkey.encrypt" } =>
        /\ last.args[1] \in DOMAIN records
        /\ records[last.args[1]].raised = Returned

\* C7 witness: the construction failed on a bundle whose first key has the
\* declared fingerprint and whose second key has not
C7_Witness ==
    /\ last.op = "KeybasePublicKey"
    /\ last.raised = ErrMismatch
    /\ last.args[1]["bundle"].keys = << FprintIrc, FprintEve >>
    /\ last.args[1]["key_fingerprint"] = FprintIrc

\* a string in upper case
UpperChar(c) ==
    CASE c = "a" -> "A"
      [] c = "b" -> "B"
      [] c = "c" -> "C"
      [] OTHER -> c
Upper(s) == [i \in DOMAIN s |-> UpperChar(s[i])]

\* the attribute map with its declared fingerprint in upper and in lower case
UpperCased(kwargs) ==
    [f \in DOMAIN kwargs |->
        IF f = "key_fingerprint" THEN Upper(kwargs[f]) ELSE kwargs[f]]
LowerCased(kwargs) ==
    [f \in DOMAIN kwargs |->
        IF f = "key_fingerprint" THEN Lower(kwargs[f]) ELSE kwargs[f]]

\* C8: for every bundle and every declared fingerprint, constructing the record
\* with the fingerprint in upper case and with it in lower case has the same
\* outcome, success or the fingerprint mismatch error, which is also the
\* outcome with the fingerprint as given; key_fingerprint of both records is
\* the same lower-case string.
C8_CaseInsensitive ==
    (last.op = "KeybasePublicKey" /\ "key_fingerprint" \in DOMAIN last.args[1]) =>
        \A d \in DirNames :
            LET up == KeyInit(UpperCased(last.args[1]), d)
                lo == KeyInit(LowerCased(last.args[1]), d)
            IN  /\ up.raised = lo.raised
                /\ up.raised = last.raised
                /\ up.keyring = lo.keyring
                /\ ("bundle" \in DOMAIN last.args[1] /\ last.args[1]["bundle"].nonempty)
                        => up.raised \in { Returned, ErrMismatch }
                /\ key_fingerprint(up.obj.__data) = key_fingerprint(lo.obj.__data)
                /\ key_fingerprint(up.obj.__data) = Some(Lower(last.args[1]["key_fingerprint"]))
                /\ Lower(Lower(last.args[1]["key_fingerprint"]))
                        = Lower(last.args[1]["key_fingerprint"])

\* C8 witness: a record was constructed with its fingerprint declared in
\* upper case, and its key_fingerprint reads in lower case
C8_Witness ==
    /\ last.op = "KeybasePublicKey"
    /\ last.raised = Returned
    /\ "key_fingerprint" \in DOMAIN last.args[1]
    /\ last.args[1]["key_fingerprint"] = Upper(last.args[1]["key_fingerprint"])
    /\ last.args[1]["key_fingerprint"] # Lower(last.args[1]["key_fingerprint"])
    /\ "bundle" \in DOMAIN last.args[1]
    /\ last.args[1]["bundle"].keys # << >>
    /\ key_fingerprint(records[last.ret[1]].__data)
            = Some(Lower(last.args[1]["key_fingerprint"]))

\* C9: constructing a key record from an attribute map with no bundle field,
\* or with an empty bundle, fails with the missing bundle KeybasePublicKeyError
\* and the engine is not asked to import anything: no engine object is made
\* for the keyring and import_keys is not called.
C9_MissingBundle ==
    (last.op = "KeybasePublicKey"
        /\ ("bundle" \notin DOMAIN last.args[1] \/ ~last.args[1]["bundle"].nonempty)) =>
        /\ last.raised = ErrMissing
        /\ last.ret = None
        /\ \A i \in DOMAIN last.engine : last.engine[i].call \notin { "GPG", "import_keys" }
        /\ \A id \in DOMAIN records :
            /\ records[id].__gpg = None
            /\ keyrings[records[id].__tempdir] = << >>

\* C9 witness: a construction from a map with an empty bundle failed
C9_Witness ==
    /\ last.op = "KeybasePublicKey"
    /\ "bundle" \in DOMAIN last.args[1]
    /\ ~last.args[1]["bundle"].nonempty
    /\ last.raised = ErrMissing

\* C10: every keyring directory that exists is the directory of a key record
\* that has not been torn down yet, whether its construction succeeded, failed
\* for a missing bundle or failed for a fingerprint mismatch; the teardown of
\* a record removes its directory, and when every record has been torn down
\* no keyring directory is left.
C10_KeyringRemoved ==
    /\ DOMAIN keyrings = { records[id].__tempdir : id \in DOMAIN records }
    /\ last.op = "__del__" => last.args[2].__tempdir \notin DOMAIN keyrings
    /\ records = EmptyDict => keyrings = EmptyDict

\* C10 witness: the last record, whose construction had failed for a
\* fingerprint mismatch, was torn down and no directory is left
C10_Witness ==
    /\ last.op = "__del__"
    /\ last.args[2].raised = ErrMismatch
    /\ records = EmptyDict
    /\ keyrings = EmptyDict

\* C11: no two live key records share a keyring: every construction, also a
\* repeated get_public_key for the same key name on the same client, makes a
\* directory that did not exist and leaves the other keyrings as they were;
\* the engine object of a record works in the record's own directory; tearing
\* a record down removes its own directory and no other.
C11_OwnKeyring ==
    [][ /\ \A i, j \in DOMAIN records' :
            i # j => records'[i].__tempdir # records'[j].__tempdir
        /\ \A id \in DOMAIN records' :
            /\ records'[id].__tempdir \in DOMAIN keyrings'
            /\ records'[id].__gpg # None =>
                    records'[id].__gpg[1].homedir = records'[id].__tempdir
        /\ \A id \in DOMAIN records' \ DOMAIN records :
            /\ records'[id].__tempdir \notin DOMAIN keyrings
            /\ DOMAIN keyrings' = DOMAIN keyrings \cup { records'[id].__tempdir }
            /\ \A d \in DOMAIN keyrings : keyrings'[d] = keyrings[d]
        /\ last'.op = "__del__" =>
            /\ DOMAIN keyrings' = DOMAIN keyrings \ { last'.args[2].__tempdir }
            /\ \A d \in DOMAIN keyrings' : keyrings'[d] = keyrings[d]
      ]_vars

\* C11 witness: get_public_key was called twice for the primary key and the
\* two records are alive, each with a keyring directory of its own
C11_Witness ==
    /\ last.op = "get_public_key"
    /\ DOMAIN records = { 1, 2 }
    /\ records[1].__data = records[2].__data
    /\ records[1].raised = Returned
    /\ records[2].raised = Returned
    /\ records[1].__tempdir # records[2].__tempdir
    /\ keyrings[records[1].__tempdir] # << >>

\* C12: verify and verify_file return True exactly when the engine reports the
\* signature valid against the record's keyring; when it reports it invalid
\* they return False if throw_error is not set and fail with
\* KeybasePublicKeyVerifyError carrying the engine's status if it is set, so
\* False is never returned with throw_error set. verify_file hands the engine
\* the data file with the detached signature path when one is supplied, and
\* the data file alone otherwise.
C12_Verify ==
    (last.op \in { "pkey.verify", "pkey.verify_file" } /\ last.engine # << >>) =>
        LET call == last.engine[1]
            vobj == call.answer
            throw_error == last.args[Len(last.args)]
        IN  /\ Len(last.engine) = 1
            /\ last.args[1] \in DOMAIN records
            /\ call.homedir = records[last.args[1]].__tempdir
            /\ last.ret = Some(TRUE) <=> vobj.valid
            /\ vobj.valid => last.raised = Returned
            /\ (~vobj.valid /\ ~throw_error) =>
                    last.raised = Returned /\ last.ret = Some(FALSE)
            /\ (~vobj.valid /\ throw_error) =>
                    /\ last.raised = Raise("KeybasePublicKeyVerifyError", << vobj.status >>)
                    /\ last.ret = None
            /\ throw_error => last.ret # Some(FALSE)
            /\ last.op = "pkey.verify" => call.call = "verify"
            /\ last.op = "pkey.verify_file" =>
                    /\ call.call = "verify_file"
                    /\ call.args = IF last.args[2] = None THEN << "fname" >>
                                   ELSE << "fname", last.args[2][1] >>

\* C12 witness: verify_file with a detached signature and throw_error set
\* failed with the engine's status for a bad signature
C12_Witness ==
    /\ last.op = "pkey.verify_file"
    /\ last.args[2] = Some("sigfname")
    /\ last.args[3]
    /\ last.engine # << >>
    /\ last.engine[1].args = << "fname", "sigfname" >>
    /\ ~last.engine[1].answer.valid
    /\ last.raised = Raise("KeybasePublicKeyVerifyError", << "signature bad" >>)

\* the sets a key record checks the names given to encrypt against
Supported(obj) ==
    [cipher_algo |-> Range(obj.__cipher_algos),
     digest_algo |-> Range(obj.__digest_algos),
     compress_algo |-> Range(obj.__compress_algos)]
AlgoParams == { "cipher_algo", "digest_algo", "compress_algo" }

\* a name was given for the parameter (an empty string reads as none given)
Named(a, param) == a[param] # None /\ a[param][1] # ""

\* C13: encrypt called with a cipher, digest or compression name that is not
\* in the record's supported set of that kind fails with
\* KeybasePublicKeyEncryptError before any engine call: neither list_keys nor
\* encrypt is invoked, and nothing of the record, its keyring or the client
\* changes; whichever of the three names is the unsupported one and whatever
\* the other two are.
C13_RejectBeforeEngine ==
    [][(last'.op = "pkey.encrypt"
            /\ \E param \in AlgoParams :
                /\ Named(last'.args[2], param)
                /\ last'.args[2][param][1] \notin Supported(records[last'.args[1]])[param]) =>
        /\ last'.raised.cls = "KeybasePublicKeyEncryptError"
        /\ last'.raised.msg[3] = " unrecognized"
        /\ last'.ret = None
        /\ last'.engine = << >>
        /\ records' = records
        /\ keyrings' = keyrings
        /\ UNCHANGED << client, admin >>]_vars

\* C13 witness: supported cipher and digest names with an unsupported
\* compression name were rejected with no engine call
C13_Witness ==
    /\ last.op = "pkey.encrypt"
    /\ last.args[2].cipher_algo = Some("AES256")
    /\ last.args[2].digest_algo = Some("SHA512")
    /\ last.args[2].compress_algo = Some("LZMA")
    /\ last.raised.cls = "KeybasePublicKeyEncryptError"
    /\ last.engine = << >>
    /\ keyrings[records[last.args[1]].__tempdir] # << >>

\* what the local engine installation reports as supported
Reported ==
    [cipher_algo |-> Range(__get_gpg_config("ciphername")),
     digest_algo |-> Range(__get_gpg_config("digestname")),
     compress_algo |-> Range(__get_gpg_config("compressname"))]

\* C14 as stated: for each of the three parameters of encrypt a name is
\* accepted exactly when it is in the set the local engine installation
\* reported as supported when the record was constructed, and no later
\* operation changes the sets. The code checks compression names against a
\* fixed list instead of what the installation reports.
C14_EngineSupported ==
    /\ \A id \in DOMAIN records : \A param \in AlgoParams :
            Supported(records[id])[param] = Reported[param]
    /\ last.op = "pkey.encrypt" =>
            ( (last.raised.cls = "KeybasePublicKeyEncryptError"
                    /\ Len(last.raised.msg) = 3)
              <=> \E param \in AlgoParams :
                    /\ Named(last.args[2], param)
                    /\ last.args[2][param][1] \notin Reported[param] )

\* every name given to the encrypt call is in the record's supported set
AllSupported(call) ==
    \A param \in AlgoParams :
        Named(call.args[2], param) =>
            call.args[2][param][1] \in Supported(records[call.args[1]])[param]

\* the engine's encrypt calls among the engine calls of a call
EncryptCalls(call) == { i \in DOMAIN call.engine : call.engine[i].call = "encrypt" }

\* C15 as stated: when every name given is supported, encrypt makes one engine
\* encrypt call with the record's own imported key as the only recipient and
\* with unconditional trust; it fails with KeybasePublicKeyEncryptError if the
\* engine reports no output, and otherwise returns the output as a str when
\* armor is true and the engine's result object when it is false. On a record
\* whose import brought no key (C25) there is no recipient and no encrypt call.
C15_EncryptDelegates ==
    (last.op = "pkey.encrypt" /\ AllSupported(last)) =>
        /\ Cardinality(EncryptCalls(last)) = 1
        /\ \A i \in EncryptCalls(last) :
            LET call == last.engine[i]
            IN  /\ call.homedir = records[last.args[1]].__tempdir
                /\ call.args[1] \in Range(keyrings[call.homedir])
                /\ Lower(call.args[1]) = key_fingerprint(records[last.args[1]].__data)[1]
                /\ call.args[2]["always_trust"]
                /\ call.args[2]["encrypt"]
                /\ ~call.args[2]["symmetric"]
                /\ call.args[2]["armor"] = last.args[2].armor
                /\ ~call.answer.ok =>
                        /\ last.raised = Raise("KeybasePublicKeyEncryptError",
                                               << "unable to encrypt data" >>)
                        /\ last.ret = None
                /\ call.answer.ok =>
                        /\ last.raised = Returned
                        /\ last.ret # None
                        /\ last.ret[1].data = call.answer.data
                        /\ last.ret[1].type = IF last.args[2].armor THEN "str" ELSE "Crypt"

-----------------------------------------------------------------------------
(* Claims about the login procedure, checked under Spec *)

LoginAnswered ==
    /\ last.op = "login"
    /\ Len(last.requests) = 2
    /\ last.requests[2].answer.raised = Returned

\* C17: when both login rounds succeed and the login response carries a
\* non-empty session, login returns True, and afterwards session is exactly the
\* session of that response and salt is the salt of the getsalt response of
\* the same call.
C17_LoginSucceeds ==
    /\ (LoginAnswered
            /\ "session" \in DOMAIN last.requests[2].answer.json
            /\ last.requests[2].answer.json["session"] # "") =>
        /\ last.raised = Returned
        /\ last.ret = Some(TRUE)
        /\ session = Some(last.requests[2].answer.json["session"])
        /\ salt = Some(last.requests[1].answer.json["salt"])
    /\ (last.op = "login" /\ last.raised = Returned) =>
        /\ LoginAnswered
        /\ last.requests[1].endpoint = "getsalt.json"
        /\ last.requests[2].endpoint = "login.json"

\* C17 witness: a login succeeded with the second salt and the second session
\* the directory may answer with, and the accessors read those
C17_Witness ==
    /\ last.op = "login"
    /\ last.raised = Returned
    /\ session = Some("cookie2")
    /\ salt = Some("e4725d")
    /\ last.requests[1].answer.json["salt"] = "e4725d"
    /\ last.requests[2].answer.json["session"] = "cookie2"

\* C18 as stated: whenever login fails on a bound instance although the
\* directory answered its requests, it fails with KeybaseError: for a getsalt
\* response without salt or login_session, and for a login response without a
\* 'session' or with an empty one. The code fails with KeyError and with
\* AssertionError in the last two cases.
C18_LoginFailsWithKeybaseError ==
    (last.op = "login" /\ is_bound /\ last.raised # Returned
        /\ \A i \in DOMAIN last.requests : last.requests[i].answer.raised = Returned) =>
        last.raised.cls = "KeybaseError"

\* C19 as stated: a failed operation leaves the state of the instance as it
\* was: after a failed login the salt, the session cookie and the stored login
\* response are what they were before the call, and so are all fields after a
\* failed lookup, _get_salt, encrypt or verify. A login that fails in its
\* second round has stored the new salt, and one that fails on the session of
\* the response has stored the response as well.
C19_FailureLeavesState ==
    [][last'.raised # Returned =>
            /\ _username' = _username
            /\ _user_object' = _user_object
            /\ __lookup_performed' = __lookup_performed
            /\ __salt' = __salt
            /\ __session_cookie' = __session_cookie
            /\ __user_object' = __user_object]_vars

-----------------------------------------------------------------------------
(* Claims about discover, checked under SpecDiscover *)

\* is_bound of a client that discover returned
IsBound(k) == TruthyStr(k._username) /\ TruthyDict(k._user_object) /\ k.__lookup_performed

\* the directory answered the request with a response on which a lookup
\* succeeds: a status name other than NOT_FOUND / INPUT_ERROR and a 'them'
LookupSucceeds(request) ==
    /\ request.answer.raised = Returned
    /\ "status" \in DOMAIN request.answer.json
    /\ "name" \in DOMAIN request.answer.json["status"]
    /\ request.answer.json["status"]["name"] \notin { "NOT_FOUND", "INPUT_ERROR" }
    /\ "them" \in DOMAIN request.answer.json

\* C20 as stated: discover with an identifier type outside twitter, github,
\* hackernews, web, coinbase, key_fingerprint fails with
\* KeybaseInvalidIdTypeError before any request; with a valid type and a
\* well-formed response it returns a tuple with one bound client per entry of
\* the response's matches, in order, the empty tuple when there are none. A
\* match whose lookup succeeds with an empty 'them' (C4) gives a client that
\* is not bound.
C20_Discover ==
    last.op = "discover" =>
        /\ last.args[1] \notin IdTypes =>
                /\ last.raised = Raise("KeybaseInvalidIdTypeError", << >>)
                /\ last.requests = << >>
        /\ ( /\ last.args[1] \in IdTypes
             /\ last.requests # << >>
             /\ last.requests[1].answer.raised = Returned
             /\ DiscoverCheck(last.requests[1].answer.json) = Returned
             /\ Len(last.requests) = 1 + Len(last.requests[1].answer.json["matches"])
             /\ \A i \in 2..Len(last.requests) : LookupSucceeds(last.requests[i]) ) =>
                LET matches == last.requests[1].answer.json["matches"]
                IN  /\ last.raised = Returned
                    /\ last.ret # None
                    /\ Len(last.ret[1]) = Len(matches)
                    /\ \A i \in DOMAIN matches :
                        /\ last.ret[1][i]._username = Some(matches[i])
                        /\ IsBound(last.ret[1][i])

-----------------------------------------------------------------------------
(* Claims about the executable resolver, checked under SpecGpg *)

\* the executable files called fname, or fname with a suffix of PATHEXT, in
\* the directories of the search path, in the order of the search
RECURSIVE FilesNamed(_, _, _)
FilesNamed(host, dirs, fname) ==
    IF dirs = << >> THEN << >>
    ELSE LET plain == Join_path(Head(dirs), fname)
             suffixed == [i \in DOMAIN host.PATHEXT |->
                            Join_path(Head(dirs), fname \o host.PATHEXT[i])]
         IN  (IF plain \in host.access THEN << plain >> ELSE << >>)
             \o SelectSeq(suffixed, LAMBDA p : p \in host.access)
             \o FilesNamed(host, Tail(dirs), fname)
Executables(host, fname) ==
    IF host.PATH = None THEN << >> ELSE FilesNamed(host, host.PATH[1], fname)

\* C21 as stated: with no binary name gpg() returns the resolved path of the
\* first gpg2 on the search path whenever there is one, of the first gpg only
\* when there is no gpg2, and None exactly when there is neither; a path it
\* returns is that of a file that passed the access check, also when the file
\* was matched through a suffix of PATHEXT. The code returns the name without
\* the suffix, which is no such file.
C21_GpgDefault ==
    (last.op = "gpg" /\ last.args[2] = None) =>
        LET host == last.args[1]
            gpg2s == Executables(host, Name_gpg2)
            gpgs == Executables(host, Name_gpg)
        IN  /\ gpg2s # << >> => last.ret = Some(realpath(host, gpg2s[1]))
            /\ (gpg2s = << >> /\ gpgs # << >>) => last.ret = Some(realpath(host, gpgs[1]))
            /\ last.ret = None <=> (gpg2s = << >> /\ gpgs = << >>)
            /\ last.ret # None =>
                    \E f \in host.access : last.ret[1] = realpath(host, f)

\* C22 as stated: gpg(binary=bName) searches the path for an executable named
\* bName and returns the resolved path of the first one, or None when there is
\* none, also for names longer than one character. The code searches for each
\* character of bName as a name of its own.
C22_GpgCustom ==
    (last.op = "gpg" /\ last.args[2] # None) =>
        LET host == last.args[1]
            found == Executables(host, last.args[2][1])
        IN  last.ret = IF found = << >> THEN None ELSE Some(realpath(host, found[1]))

-----------------------------------------------------------------------------
(* Claims about the round trips, checked under Spec *)

\* C23 as stated: every directory call made by lookup, _get_salt and login
\* (and discover, through the same get_json_from_url) waits for a bounded
\* time, so that a service that never answers ends the call with a transport
\* error. The code sends every request without a timeout, and such a request
\* waits for ever.
C23_BoundedWait ==
    \A i \in DOMAIN last.requests : last.requests[i].timeout # None

\* the session cookie is set: then it is not empty, a salt is stored and the
\* instance is bound
SessionHasSalt ==
    __session_cookie # None =>
        /\ __session_cookie[1] # ""
        /\ __salt # None
        /\ is_bound

\* the requests of a login call: none on an unbound instance, else the
\* getsalt request for the bound handle, and after it, exactly when round 1
\* gave a salt and a login_session, one login request that carries the bound
\* handle and the login_session of that getsalt response
LoginRounds ==
    last.op = "login" =>
        /\ Len(last.requests) <= 2
        /\ last.requests = << >> <=> ~is_bound
        /\ last.requests # << >> =>
                /\ last.requests[1].endpoint = "getsalt.json"
                /\ last.requests[1].payload = ("email_or_username" :> _username)
                /\ LET answer == last.requests[1].answer
                   IN  Len(last.requests) = 2 <=>
                            /\ answer.raised = Returned
                            /\ { "salt", "login_session" } \subseteq DOMAIN answer.json
        /\ Len(last.requests) = 2 =>
                /\ last.requests[2].endpoint = "login.json"
                /\ last.requests[2].payload["email_or_username"] = _username
                /\ last.requests[2].payload["login_session"] =
                        last.requests[1].answer.json["login_session"]
        /\ last.raised = Returned => Len(last.requests) = 2

\* the session cookie changes only in a login that returned, to the session
\* of the response of its round 2
SessionSetByRound2 ==
    __session_cookie' # __session_cookie =>
        /\ last'.op = "login"
        /\ last'.raised = Returned
        /\ Len(last'.requests) = 2
        /\ __session_cookie' = Some(last'.requests[2].answer.json["session"])

\* C24: in every reachable state of an admin instance a session cookie implies
\* a stored salt and a bound instance, and the cookie is only ever set by a
\* completed round 2. A login call issues the getsalt request first and the
\* login request after it, at most one of each (a call that stops in round 1
\* issues no login request, a call on an unbound instance no request at all),
\* and the login request carries the bound handle and the login_session that
\* the getsalt request of the same call returned, never an earlier one.
C24_LoginRounds ==
    [](SessionHasSalt /\ LoginRounds) /\ [][SessionSetByRound2]_vars

\* C24 witness: after an earlier login had set the session cookie, a login
\* whose round 1 returned the second challenge sent that challenge in round 2,
\* which failed; the cookie of the earlier login is still there
C24_Witness ==
    /\ last.op = "login"
    /\ Len(last.requests) = 2
    /\ last.requests[2].answer.raised # Returned
    /\ last.requests[1].answer.json["login_session"] = "lgHZIGU0"
    /\ last.requests[2].payload["login_session"] = "lgHZIGU0"
    /\ session = Some("cookie1")
    /\ salt = Some("e4725d")

-----------------------------------------------------------------------------
(* Claims about the keyring of a constructed record, checked under SpecKey *)

\* C25 as stated: every key record whose construction succeeded has a keyring
\* with at least one imported key whose fingerprint is the record's declared
\* fingerprint, so that encrypt on such a record always finds a recipient key
\* and fails only with the encryption errors, for every import result, also
\* one that reports no fingerprints. The loop that compares the fingerprints
\* passes over an empty import result, the record is constructed with an empty
\* keyring, and encrypt fails on it with IndexError.
C25_KeyringHasKey ==
    /\ \A id \in Held :
        LET ring == keyrings[records[id].__tempdir]
            declared == key_fingerprint(records[id].__data)
        IN  /\ ring # << >>
            /\ declared # None
            /\ \A i \in DOMAIN ring : Lower(ring[i]) = declared[1]
    /\ last.op = "pkey.encrypt" =>
            last.raised.cls \in { "", "KeybasePublicKeyError", "KeybasePublicKeyEncryptError" }

====
